---- MODULE Spec2Model ----
(***************************************************************************)
(* Model of use-epics (src/src/index.ts): the useEpics hook, the           *)
(* StateObservable it builds per activation, and the ofType filter.        *)
(*                                                                         *)
(* The host (React) is modelled by its hook contract: callbacks queue      *)
(* updates (dispatch / setLastAction), a render folds the queues into the  *)
(* hook state and schedules the effects whose deps changed, and the        *)
(* effects run in declaration order after the render, cleanups first.      *)
(* Values: states and arguments are naturals (a state may also be          *)
(* undefined or NaN); an optional value is a sequence of length 0          *)
(* (undefined) or 1.                                                       *)
(***************************************************************************)
EXTENDS Integers, Sequences, FiniteSets, TLC

\* ----------------------------------------------------------------- bounds
MaxCalls == 2          \* callback invocations made by the caller
MaxArg == 1            \* argument values are 1..MaxArg
MaxEpicChanges == 1    \* times the parent passes a new epics array
MaxSrcLen == 3         \* length of the source sequence fed to ofType
MaxKeys == 2           \* number of keys given to ofType

\* ------------------------------------------------------------ environment
Seed == 0              \* the initialState / initializerArg argument
Undefined == -1        \* the value undefined where a state is expected
NaN == -2              \* the value NaN where a state is expected
NoEpoch == 0           \* a ref whose .current is null

ActionTypes == {"increment", "incrementAsync", "add", "fail"}

\* the handler names of two other HandlerMaps: one whose handlers always
\* return a state, one with a handler whose result depends on the state
FoldTypes == {"increment", "double", "incrementAsync"}
StaleTypes == {"increment", "incrementIfZero", "incrementAsync"}

\* null (lastAction) and undefined (an absent stream item): both falsy
Null == [id |-> 0, type |-> "null", payload |-> <<>>]

EpicKinds == {"log", "delay", "sync", "faulty", "once", "thrower"}
EpicLists == {<<"delay">>, <<"log", "sync">>}

\* epic lists with an epic whose output stream errors ("faulty"), one whose
\* output completes ("once"), and one that throws when it is called ("thrower")
FailureLists == {<<"faulty", "delay">>, <<"log", "once">>, <<"log", "thrower">>}

ArgVals == 1 .. MaxArg

\* the argument lists the callback surface is invoked with, per handler
ArgsOf(type) ==
    IF type = "add" THEN {<<a, b>> : a \in ArgVals, b \in ArgVals}
    ELSE {<<>>}

CallInputs(types) == UNION {{[type |-> t, args |-> as] : as \in ArgsOf(t)} : t \in types}

\* Options values a caller may pass: each key present or not
OptionSets ==
    {[hasImmer |-> hi, immer |-> im, hasInit |-> hn] :
        hi \in BOOLEAN, im \in BOOLEAN, hn \in BOOLEAN}

ValidOptions(o) == o.hasImmer \/ o.immer

\* ------------------------------------------------------ results of a call
Ret(v) == [tag |-> "ret", val |-> v]
Undef == [tag |-> "undef", val |-> 0]
Throw == [tag |-> "throw", val |-> 0]

ArgOr(recv, k, dflt) == IF k <= Len(recv) THEN recv[k] ELSE dflt

\* state + n and state * n where state may be undefined or NaN
Plus(s, n) == IF s \in {Undefined, NaN} THEN NaN ELSE s + n
Times(s, n) == IF s \in {Undefined, NaN} THEN NaN ELSE s * n

\* a === b
StrictEq(a, b) == a = b /\ a # NaN

\* createActions(state)[type](...recv): the caller's HandlerMap
\*   increment: () => state + 1          incrementAsync: () => undefined
\*   add: (a, b = 0) => state + a + b    fail: () => { throw }
\*   double: () => state * 2
\*   incrementIfZero: () => state === 0 ? state + 1 : undefined
Handler(s, type, recv) ==
    CASE type = "increment" -> Ret(Plus(s, 1))
      [] type = "incrementAsync" -> Undef
      [] type = "add" -> Ret(Plus(s, ArgOr(recv, 1, 0) + ArgOr(recv, 2, 0)))
      [] type = "double" -> Ret(Times(s, 2))
      [] type = "incrementIfZero" -> IF StrictEq(s, 0) THEN Ret(Plus(s, 1)) ELSE Undef
      [] OTHER -> Throw

\* options.init
initFn(seed) == seed + 1

\* ------------------------------------------------------------------ state
VARIABLES
    phase,          \* "init" (not mounted), "active", "disposed" (unmounted)
    defaultOptions, \* the module-level defaultOptions object
    options,        \* the options argument of this container
    epics,          \* the epics argument of the last render: [ver, list]
    state,          \* useReducer: the container state
    lastAction,     \* useState: the action recorded for publication, or Null
    reducerQ,       \* dispatch(action) updates queued since the last render
    lastActionQ,    \* setLastAction(x) updates queued since the last render
    memo,           \* what useMemo keeps: [immer: the reducer's mode,
                    \*   state: the `state` wrappedActions closed over]
    renderedRefs,   \* stateRef$.current / actionRef$.current as the last render read them
    pending,        \* effects of the last render still to run, in order
    refs,           \* stateRef$.current / actionRef$.current: the epoch of the buses they hold
    bus,            \* the state bus of the current activation:
                    \*   [b: BehaviorSubject value, d: distinctUntilChanged key,
                    \*    value: StateObservable.value]
    inst,           \* every epic instance created so far
    nextId,         \* identity of the next action object
    hist,           \* history: one record per callback invocation, by action id
    initCalls,      \* history: how many times opts.init has been called
    ofKeys,         \* ofType(...keys)
    ofSrc,          \* the source sequence fed to it
    ofPos,          \* next source item to emit
    ofOut           \* what the filtered stream has emitted

vars ==
    <<phase, defaultOptions, options, epics, state, lastAction, reducerQ, lastActionQ,
      memo, renderedRefs, pending, refs, bus, inst, nextId, hist, initCalls,
      ofKeys, ofSrc, ofPos, ofOut>>

hookVars ==
    <<phase, defaultOptions, options, epics, state, lastAction, memo, renderedRefs,
      pending, refs, initCalls>>
ofVars == <<ofKeys, ofSrc, ofPos, ofOut>>

\* the part of the state that callbacks, buses and epics act on
World == [phase |-> phase, rq |-> reducerQ, lq |-> lastActionQ, bus |-> bus,
          inst |-> inst, nextId |-> nextId, hist |-> hist, refs |-> refs,
          immer |-> memo.immer, memoState |-> memo.state]

Commit(w) ==
    /\ reducerQ' = w.rq
    /\ lastActionQ' = w.lq
    /\ bus' = w.bus
    /\ inst' = w.inst
    /\ nextId' = w.nextId
    /\ hist' = w.hist

\* ------------------------------------------------------------------ ofType
\* mutant: the loop starts at the second key (let i = 1)
KeyLoopFromSecond(keys, type, i, len) ==
    \E k \in (i + 2) .. len : type = keys[k]

RECURSIVE KeyLoop(_, _, _, _)
\* for (let i = 0; i < len; i++) if (type === keys[i]) return true
KeyLoop(keys, type, i, len) ==
    IF i >= len THEN FALSE
    ELSE IF type = keys[i + 1] THEN TRUE
    ELSE KeyLoop(keys, type, i + 1, len)

\* the predicate ofType hands to filter
OfTypePredicate(keys, action) ==
    IF action = Null THEN FALSE
    ELSE LET type == action.type
             len == Len(keys)
         IN  IF len = 1 THEN type = keys[1]
             ELSE KeyLoop(keys, type, 0, len)

\* --------------------------------------------------------------- reduction
\* update = (state, action) => createActions(state)[action.type](action.payload)
update(s, action) == Handler(s, action.type, action.payload)

\* !opts.immer ? update : immer(update); on a primitive base immer returns the
\* base when the recipe returns undefined
reducer(immer, s, action) ==
    LET r == update(s, action)
    IN  IF immer /\ r.tag = "undef" THEN Ret(s) ELSE r

\* useReducer folding one queued action into the state: what the reducer
\* returns is stored, undefined included (a handler that throws whatever the
\* state is never gets here: dispatchWithEpic ran it first)
ReactReduce(immer, s, action) ==
    LET r == reducer(immer, s, action)
    IN  IF r.tag = "ret" THEN r.val ELSE Undefined

\* mutant: only the last queued action is reduced
ReactReduceLast(immer, s, q) ==
    IF q = <<>> THEN s ELSE ReactReduce(immer, s, q[Len(q)])

RECURSIVE ReactReduceAll(_, _, _)
\* the update queue of useReducer, processed in dispatch order by a render
ReactReduceAll(immer, s, q) ==
    IF q = <<>> THEN s
    ELSE ReactReduceAll(immer, ReactReduce(immer, s, Head(q)), Tail(q))

\* Object.assign(defaultOptions, options)
AssignOptions(d, o) ==
    [immer |-> IF o.hasImmer THEN o.immer ELSE d.immer,
     init |-> IF o.hasInit THEN TRUE ELSE d.init]

\* opts.init ? opts.init(initialState) : initialState
InitializedState(opts) == IF opts.init THEN initFn(Seed) ELSE Seed

\* the calls of opts.init made by one evaluation of the line above, and by
\* useReducer(reducer, initialState, opts.init) on mount
InitCalled(opts) == IF opts.init THEN 1 ELSE 0

\* ------------------------------------------------------- callback surface
\* const dispatchWithEpic = ([payload]) => ...: the first argument, or undefined
FirstArg(args) == IF args = <<>> THEN <<>> ELSE <<args[1]>>

HistEntry(action, args, by, outcome) ==
    [type |-> action.type, args |-> args, payload |-> action.payload, by |-> by,
     outcome |-> outcome, handlerArgs |-> action.payload,
     reduced |-> FALSE, pre |-> Undefined, post |-> Undefined,
     delivered |-> FALSE, seq |-> 0, receivers |-> {}, valueAt |-> Undefined]

\* dispatch(action): queued for the next render; ignored once unmounted
Dispatch(w, action) ==
    IF w.phase = "active" THEN [w EXCEPT !.rq = Append(@, action)] ELSE w

\* setLastAction(x): queued for the next render; ignored once unmounted
SetLastAction(w, x) ==
    IF w.phase = "active" THEN [w EXCEPT !.lq = Append(@, x)] ELSE w

\* mutant: the action is recorded before the reduction is attempted
DispatchWithEpicRecordFirst(w, type, args, by) ==
    LET action == [id |-> w.nextId, type |-> type, payload |-> FirstArg(args)]
        nextState == reducer(w.immer, w.memoState, action)
        w1 == SetLastAction([w EXCEPT !.nextId = @ + 1], action)
    IN  IF nextState.tag = "throw"
        THEN [w1 EXCEPT !.hist = Append(@, HistEntry(action, args, by, "threw"))]
        ELSE LET w2 == IF nextState.tag = "ret" THEN Dispatch(w1, action) ELSE w1
                 outcome == IF w.phase # "active" THEN "ignored"
                            ELSE IF nextState.tag = "ret" THEN "dispatched"
                            ELSE "effectOnly"
             IN  [w2 EXCEPT !.hist = Append(@, HistEntry(action, args, by, outcome))]

\* acc[type] = (...payload) => dispatchWithEpic(payload)
DispatchWithEpic(w, type, args, by) ==
    LET action == [id |-> w.nextId, type |-> type, payload |-> FirstArg(args)]
        nextState == reducer(w.immer, w.memoState, action)
        w1 == [w EXCEPT !.nextId = @ + 1]
    IN  IF nextState.tag = "throw"
        THEN [w1 EXCEPT !.hist = Append(@, HistEntry(action, args, by, "threw"))]
        ELSE LET w2 == IF nextState.tag = "ret" THEN Dispatch(w1, action) ELSE w1
                 w3 == SetLastAction(w2, action)
                 outcome == IF w.phase # "active" THEN "ignored"
                            ELSE IF nextState.tag = "ret" THEN "dispatched"
                            ELSE "effectOnly"
             IN  [w3 EXCEPT !.hist = Append(@, HistEntry(action, args, by, outcome))]

\* ---------------------------------------------------------------- buses
Live(w, i) == ~w.inst[i].closed /\ w.inst[i].act = w.refs

\* this.__notifier.next(value): every live subscriber of the notifier gets it
NotifierNext(w, x) ==
    [w EXCEPT !.inst = [i \in DOMAIN @ |->
        IF Live(w, i) /\ @[i].stateSub
        THEN [@[i] EXCEPT !.stateLog = Append(@, x)]
        ELSE @[i]]]

\* mutant: the observer notifies without storing the value
StateSubjectObserverNoStore(w, x) ==
    IF ~StrictEq(x, w.bus.value) THEN NotifierNext(w, x) ELSE w

\* the StateObservable's observer of the state subject
StateSubjectObserver(w, x) ==
    IF ~StrictEq(x, w.bus.value)
    THEN NotifierNext([w EXCEPT !.bus.value = x], x)
    ELSE w

\* stateRef$.current.next(x): BehaviorSubject, observeOn(queueScheduler),
\* distinctUntilChanged, then the observer. queueScheduler runs the
\* notification at once unless a queue task is already running; the effects
\* are run by the host, outside any queue task, and the epics modelled here
\* schedule nothing on queueScheduler themselves
StateBusNext(w, x) ==
    LET w1 == [w EXCEPT !.bus.b = x]
    IN  IF ~StrictEq(x, w1.bus.d)
        THEN StateSubjectObserver([w1 EXCEPT !.bus.d = x], x)
        ELSE w1

\* mutant: the subscriber is replayed the value the observable was built with
StateObservableSubscribeInitial(w, i) ==
    [w EXCEPT !.inst[i].stateSub = TRUE,
              !.inst[i].stateLog = Append(@, w.memoState)]

\* state$.subscribe(observer): subscribe to the notifier, then replay value
StateObservableSubscribe(w, i) ==
    [w EXCEPT !.inst[i].stateSub = TRUE,
              !.inst[i].stateLog = Append(@, w.bus.value)]

\* mutant: the end of one output stream unsubscribes the whole activation
TerminatedTearsDown(w, i) ==
    [w EXCEPT !.inst = [j \in DOMAIN @ |->
        IF @[j].act = @[i].act
        THEN [@[j] EXCEPT !.closed = TRUE, !.ended = (j = i), !.timers = 0]
        ELSE @[j]]]

\* the output stream of instance i errors or completes: the subscriber made
\* by e.subscribe() closes itself; having no error callback, it hands an
\* error to the host to report in a task of its own
Terminated(w, i) ==
    [w EXCEPT !.inst[i].closed = TRUE, !.inst[i].ended = TRUE, !.inst[i].timers = 0]

\* one epic instance handling an action its action$ observer received
EpicOnAction(w, i, action) ==
    LET kind == w.inst[i].kind
        hit == OfTypePredicate(<<"incrementAsync">>, action)
    IN  IF kind = "delay" /\ hit
        THEN [w EXCEPT !.inst[i].timers = @ + 1]
        ELSE IF kind = "sync" /\ hit
        THEN DispatchWithEpic(w, "increment", <<>>, "epic")
        ELSE IF kind = "faulty" /\ OfTypePredicate(<<"increment">>, action)
        THEN Terminated(w, i)
        ELSE IF kind = "once"
        THEN Terminated(w, i)
        ELSE w

RECURSIVE DeliverFrom(_, _, _)
\* Subject.next: the observers present when next is called, in subscription order
DeliverFrom(w, i, action) ==
    IF i > Len(w.inst) THEN w
    ELSE IF Live(w, i)
    THEN DeliverFrom(EpicOnAction(w, i, action), i + 1, action)
    ELSE DeliverFrom(w, i + 1, action)

\* actionRef$.current.next(action)
ActionBusNext(w, action) ==
    LET seen == [w EXCEPT !.hist[action.id] =
                    [@ EXCEPT !.delivered = TRUE,
                              !.seq = 1 + Cardinality({j \in DOMAIN w.hist : w.hist[j].delivered}),
                              !.receivers = {i \in DOMAIN w.inst : Live(w, i)},
                              !.valueAt = w.bus.value]]
    IN  DeliverFrom(seen, 1, action)

\* mutant: the action is pushed before the state
PublicationActionFirst(w, st, la) ==
    IF la # Null /\ w.refs # NoEpoch
    THEN SetLastAction(StateBusNext(ActionBusNext(w, la), st), Null)
    ELSE w

\* the body of the publication effect
Publication(w, st, la) ==
    IF la # Null /\ w.refs # NoEpoch
    THEN SetLastAction(ActionBusNext(StateBusNext(w, st), la), Null)
    ELSE w

\* mutant: only the first subscription of the activation is unsubscribed
UnsubscribeFirst(w) ==
    LET mine == {i \in DOMAIN w.inst : w.inst[i].act = w.refs}
    IN  [w EXCEPT !.inst = [i \in DOMAIN @ |->
            IF i \in mine /\ \A j \in mine : i <= j
            THEN [@[i] EXCEPT !.closed = TRUE, !.timers = 0]
            ELSE @[i]]]

\* effectSubscriptions$.forEach(e => e.unsubscribe())
Unsubscribe(w) ==
    [w EXCEPT !.inst = [i \in DOMAIN @ |->
        IF @[i].act = w.refs THEN [@[i] EXCEPT !.closed = TRUE, !.timers = 0] ELSE @[i]]]

NewInstance(kind, epoch) ==
    [kind |-> kind, act |-> epoch, closed |-> FALSE, ended |-> FALSE, timers |-> 0,
     stateSub |-> FALSE, stateLog |-> <<>>]

\* an epic of the list throws when epics.map calls it
Throws(list) == \E k \in DOMAIN list : list[k] = "thrower"

\* mutant: each epic is subscribed as soon as epics.map has called it
SubscribedEagerly(list, epoch) ==
    LET first == CHOOSE k \in DOMAIN list : list[k] = "thrower" /\ \A j \in 1 .. k - 1 : list[j] # "thrower"
    IN  IF Throws(list)
        THEN [k \in 1 .. first - 1 |-> NewInstance(list[k], epoch)]
        ELSE [k \in 1 .. Len(list) |-> NewInstance(list[k], epoch)]

\* epics$.map(e => e.subscribe()): reached only when epics.map returned, so
\* when no epic threw; the streams returned by the epics called before a
\* throwing one are never subscribed
Subscriptions(list, epoch) ==
    IF Throws(list) THEN <<>>
    ELSE [k \in 1 .. Len(list) |-> NewInstance(list[k], epoch)]

\* the body of the activation effect
Activation(w, opts, list) ==
    LET initializedState == InitializedState(opts)
        epoch == w.refs + 1
    IN  [w EXCEPT !.refs = epoch,
                  !.bus = [b |-> initializedState, d |-> initializedState,
                           value |-> initializedState],
                  !.inst = @ \o Subscriptions(list, epoch)]

\* -------------------------------------------------------------- actions
TypeOfInit ==
    /\ ofKeys = <<>>
    /\ ofSrc = <<>>
    /\ ofPos = 1
    /\ ofOut = <<>>

HookInit ==
    /\ phase = "init"
    /\ defaultOptions = [immer |-> TRUE, init |-> FALSE]
    /\ state = Seed
    /\ lastAction = Null
    /\ reducerQ = <<>>
    /\ lastActionQ = <<>>
    /\ memo = [immer |-> TRUE, state |-> Seed]
    /\ renderedRefs = NoEpoch
    /\ pending = <<>>
    /\ refs = NoEpoch
    /\ bus = [b |-> Seed, d |-> Seed, value |-> Seed]
    /\ inst = <<>>
    /\ nextId = 1
    /\ hist = <<>>
    /\ initCalls = 0

Init ==
    /\ HookInit
    /\ options \in {o \in OptionSets : ValidOptions(o)}
    /\ epics \in {[ver |-> 0, list |-> l] : l \in EpicLists}
    /\ TypeOfInit

\* the first render of useEpics
Mount ==
    /\ phase = "init"
    /\ LET opts == AssignOptions(defaultOptions, options)
           first == InitializedState(opts)
       IN  /\ defaultOptions' = opts
           /\ state' = first
           /\ memo' = [immer |-> opts.immer, state |-> first]
           /\ initCalls' = initCalls + InitCalled(opts)
    /\ phase' = "active"
    /\ renderedRefs' = refs
    /\ pending' = <<"activate", "publish">>
    /\ UNCHANGED <<options, epics, lastAction, reducerQ, lastActionQ, refs, bus, inst,
                   nextId, hist, ofVars>>

\* the states React reaches folding the queued actions, recorded per action
Reduced(h, immer, s, q) ==
    [id \in DOMAIN h |->
        IF \E k \in DOMAIN q : q[k].id = id
        THEN LET k == CHOOSE k \in DOMAIN q : q[k].id = id
             IN  [h[id] EXCEPT !.reduced = TRUE,
                               !.pre = ReactReduceAll(immer, s, SubSeq(q, 1, k - 1)),
                               !.post = ReactReduceAll(immer, s, SubSeq(q, 1, k))]
        ELSE h[id]]

\* a later render of useEpics, with the epics argument e
RenderWith(e) ==
    LET newLast == IF lastActionQ = <<>> THEN lastAction
                   ELSE lastActionQ[Len(lastActionQ)]
        epicsChanged == e.ver # epics.ver
        pubChanged == newLast.id # lastAction.id \/ refs # renderedRefs
    IN  /\ defaultOptions' = AssignOptions(defaultOptions, options)
        /\ state' = ReactReduceAll(memo.immer, state, reducerQ)
        /\ lastAction' = newLast
        /\ reducerQ' = <<>>
        /\ lastActionQ' = <<>>
        /\ hist' = Reduced(hist, memo.immer, state, reducerQ)
        /\ epics' = e
        /\ renderedRefs' = refs
        /\ pending' = (IF epicsChanged THEN <<"cleanup", "activate">> ELSE <<>>)
                      \o (IF pubChanged THEN <<"publish">> ELSE <<>>)
        /\ UNCHANGED <<phase, options, memo, refs, bus, inst, nextId, initCalls, ofVars>>

\* the host re-renders because dispatch / setLastAction queued an update
Render ==
    /\ phase = "active"
    /\ pending = <<>>
    /\ reducerQ # <<>> \/ lastActionQ # <<>>
    /\ RenderWith(epics)

\* the parent re-renders and passes a new epics array, one of `lists`
Reconfigure(lists) ==
    /\ phase = "active"
    /\ pending = <<>>
    /\ epics.ver < MaxEpicChanges
    /\ \E l \in lists : RenderWith([ver |-> epics.ver + 1, list |-> l])

ParentRender == Reconfigure(EpicLists)

CallerCalls == Cardinality({i \in DOMAIN hist : hist[i].by = "caller"})

\* the caller invokes a callback of the surface, one of `types`. The host
\* runs the effects of a render before it takes a new update, so none is
\* pending; several invocations may precede the next render
Invoke(types) ==
    /\ phase \in {"active", "disposed"}
    /\ pending = <<>>
    /\ CallerCalls < MaxCalls
    /\ \E c \in CallInputs(types) :
        Commit(DispatchWithEpic(World, c.type, c.args, "caller"))
    /\ UNCHANGED <<hookVars, ofVars>>

CallBack == Invoke({"increment", "incrementAsync", "fail"})

\* the delay of a "delay" epic elapses: it calls increment(). A timer is a
\* task of its own: the host has flushed the updates queued by earlier tasks
TimerFire ==
    /\ phase = "active"
    /\ pending = <<>>
    /\ reducerQ = <<>> /\ lastActionQ = <<>>
    /\ \E i \in DOMAIN inst :
        /\ ~inst[i].closed
        /\ inst[i].timers > 0
        /\ Commit(DispatchWithEpic([World EXCEPT !.inst[i].timers = @ - 1],
                                   "increment", <<>>, "epic"))
    /\ UNCHANGED <<hookVars, ofVars>>

\* an epic subscribes an observer to state$
SubscribeState ==
    /\ phase = "active"
    /\ \E i \in DOMAIN inst :
        /\ Live(World, i)
        /\ inst[i].kind = "log"
        /\ ~inst[i].stateSub
        /\ Commit(StateObservableSubscribe(World, i))
    /\ UNCHANGED <<hookVars, ofVars>>

\* the cleanup returned by the activation effect, run because epics changed
RunCleanup ==
    /\ pending # <<>> /\ Head(pending) = "cleanup"
    /\ Commit(Unsubscribe(World))
    /\ pending' = Tail(pending)
    /\ UNCHANGED <<phase, defaultOptions, options, epics, state, lastAction, memo,
                   renderedRefs, refs, initCalls, ofVars>>

\* useEffect(..., [epics]). When an epic throws, the effect throws: it has
\* assigned the refs and returns no cleanup; the host runs the effects left
\* of this render and then unmounts the tree that threw
RunActivate ==
    /\ pending # <<>> /\ Head(pending) = "activate"
    /\ LET w == Activation(World, defaultOptions, epics.list)
       IN  Commit(w) /\ refs' = w.refs
    /\ initCalls' = initCalls + InitCalled(defaultOptions)
    /\ pending' = Tail(pending) \o (IF Throws(epics.list) THEN <<"unmount">> ELSE <<>>)
    /\ UNCHANGED <<phase, defaultOptions, options, epics, state, lastAction, memo,
                   renderedRefs, ofVars>>

\* useEffect(..., [lastAction, stateRef$.current, actionRef$.current])
RunPublish ==
    /\ pending # <<>> /\ Head(pending) = "publish"
    /\ Commit(Publication(World, state, lastAction))
    /\ pending' = Tail(pending)
    /\ UNCHANGED <<phase, defaultOptions, options, epics, state, lastAction, memo,
                   renderedRefs, refs, initCalls, ofVars>>

\* the host unmounts the component after its activation effect threw: that
\* effect left no cleanup to run, and the one before it has already run
ErrorUnmount ==
    /\ pending # <<>> /\ Head(pending) = "unmount"
    /\ phase' = "disposed"
    /\ pending' = Tail(pending)
    /\ UNCHANGED <<defaultOptions, options, epics, state, lastAction, reducerQ, lastActionQ,
                   memo, renderedRefs, refs, bus, inst, nextId, hist, initCalls, ofVars>>

\* the host unmounts the component: the activation effect's cleanup runs
Unmount ==
    /\ phase = "active"
    /\ pending = <<>>
    /\ Commit(Unsubscribe(World))
    /\ phase' = "disposed"
    /\ UNCHANGED <<defaultOptions, options, epics, state, lastAction, memo,
                   renderedRefs, pending, refs, initCalls, ofVars>>

Next ==
    \/ Mount
    \/ Render
    \/ ParentRender
    \/ CallBack
    \/ TimerFire
    \/ SubscribeState
    \/ RunCleanup
    \/ RunActivate
    \/ RunPublish
    \/ Unmount

Spec == Init /\ [][Next]_vars

\* ---------------------------------------- the container with every handler
CallBackArgs == Invoke(ActionTypes)

NextPayload ==
    \/ Mount
    \/ Render
    \/ ParentRender
    \/ CallBackArgs
    \/ TimerFire
    \/ SubscribeState
    \/ RunCleanup
    \/ RunActivate
    \/ RunPublish
    \/ Unmount

SpecPayload == Init /\ [][NextPayload]_vars

\* ------------------------------------------- a second useEpics call site
\* another container renders: its useEpics call runs
\* Object.assign(defaultOptions, options) with its own options
OtherUse ==
    /\ pending = <<>>
    /\ \E o \in {o \in OptionSets : ValidOptions(o)} :
        /\ defaultOptions' = AssignOptions(defaultOptions, o)
        /\ defaultOptions' # defaultOptions
    /\ UNCHANGED <<phase, options, epics, state, lastAction, reducerQ, lastActionQ, memo,
                   renderedRefs, pending, refs, bus, inst, nextId, hist, initCalls, ofVars>>

NextOptions ==
    \/ OtherUse
    \/ Mount
    \/ Render
    \/ ParentRender
    \/ CallBack
    \/ TimerFire
    \/ SubscribeState
    \/ RunCleanup
    \/ RunActivate
    \/ RunPublish
    \/ Unmount

SpecOptions == Init /\ [][NextOptions]_vars

\* ------------------------------------ handlers whose result is always a state
CallBackFold == Invoke(FoldTypes)

NextFold ==
    \/ Mount
    \/ Render
    \/ ParentRender
    \/ CallBackFold
    \/ TimerFire
    \/ SubscribeState
    \/ RunCleanup
    \/ RunActivate
    \/ RunPublish
    \/ Unmount

SpecFold == Init /\ [][NextFold]_vars

\* ----------------------------- a handler whose result depends on the state
CallBackStale == Invoke(StaleTypes)

NextStale ==
    \/ Mount
    \/ Render
    \/ ParentRender
    \/ CallBackStale
    \/ TimerFire
    \/ SubscribeState
    \/ RunCleanup
    \/ RunActivate
    \/ RunPublish
    \/ Unmount

SpecStale == Init /\ [][NextStale]_vars

\* ------------------------------------- epics that end or fail to start
FailureInit ==
    /\ HookInit
    /\ options \in {o \in OptionSets : ValidOptions(o)}
    /\ epics \in {[ver |-> 0, list |-> l] : l \in FailureLists}
    /\ TypeOfInit

ParentRenderFailure == Reconfigure(FailureLists)

CallBackPlain == Invoke({"increment", "incrementAsync"})

NextFailure ==
    \/ Mount
    \/ Render
    \/ ParentRenderFailure
    \/ CallBackPlain
    \/ TimerFire
    \/ SubscribeState
    \/ RunCleanup
    \/ RunActivate
    \/ RunPublish
    \/ ErrorUnmount
    \/ Unmount

SpecFailure == FailureInit /\ [][NextFailure]_vars

\* ------------------------------------------------- the example scenario
\* handlers increment / incrementAsync, one epic that filters incrementAsync
\* and calls increment() after a delay, the epic list never changed
ScenarioInit ==
    /\ HookInit
    /\ options \in {o \in OptionSets : ValidOptions(o)}
    /\ epics = [ver |-> 0, list |-> <<"delay">>]
    /\ TypeOfInit

CallIncrementAsync ==
    /\ phase = "active"
    /\ Invoke({"incrementAsync"})

NextScenario ==
    \/ Mount
    \/ Render
    \/ CallIncrementAsync
    \/ TimerFire
    \/ RunActivate
    \/ RunPublish

SpecScenario == ScenarioInit /\ [][NextScenario]_vars

\* ------------------------------------------------------- ofType on a stream
SrcItems == {Null} \cup {[id |-> p, type |-> t, payload |-> <<>>] :
                            p \in 1 .. MaxSrcLen, t \in ActionTypes}

OfTypeInit ==
    /\ HookInit
    /\ options = [hasImmer |-> FALSE, immer |-> TRUE, hasInit |-> FALSE]
    /\ epics = [ver |-> 0, list |-> <<"delay">>]
    /\ ofKeys \in UNION {[1 .. n -> ActionTypes] : n \in 0 .. MaxKeys}
    /\ ofSrc \in {src \in UNION {[1 .. n -> SrcItems] : n \in 0 .. MaxSrcLen} :
                    \A p \in DOMAIN src : src[p] = Null \/ src[p].id = p}
    /\ ofPos = 1
    /\ ofOut = <<>>

\* the source emits its next item into source.pipe(filter(...))
OfTypeEmit ==
    /\ ofPos <= Len(ofSrc)
    /\ ofOut' = IF OfTypePredicate(ofKeys, ofSrc[ofPos])
                THEN Append(ofOut, ofSrc[ofPos])
                ELSE ofOut
    /\ ofPos' = ofPos + 1
    /\ UNCHANGED <<hookVars, reducerQ, lastActionQ, bus, inst, nextId, hist, ofKeys, ofSrc>>

SpecOfType == OfTypeInit /\ [][OfTypeEmit]_vars

\* =================================================================== claims
Ids == DOMAIN hist

\* the update cycle has settled: nothing queued, no effect pending, nothing
\* recorded for publication
Quiescent ==
    /\ phase = "active"
    /\ pending = <<>>
    /\ reducerQ = <<>>
    /\ lastActionQ = <<>>
    /\ lastAction = Null

\* the action of invocation id was built while the container was Active and
\* its handler did not throw
Recorded(id) == hist[id].outcome \in {"dispatched", "effectOnly"}

\* C1: when an epic's action observer receives the action of a state-changing
\* invocation, StateObservable.value is already that invocation's
\* post-reduction state (the state is pushed before the action).
C1_StateBeforeAction ==
    \A id \in Ids :
        (hist[id].delivered /\ hist[id].outcome = "dispatched") =>
            /\ hist[id].reduced
            /\ hist[id].valueAt = hist[id].post

C1_Witness ==
    \E id \in Ids :
        /\ hist[id].delivered
        /\ hist[id].reduced
        /\ hist[id].receivers # {}
        /\ hist[id].post # hist[id].pre
        /\ hist[id].valueAt = hist[id].post

\* C2: every callback invocation made while Active has its action delivered
\* on the action bus once the update cycle has settled, in invocation order,
\* also when several callbacks are invoked before the publication pass.
C2_EveryActionDelivered ==
    Quiescent =>
        /\ \A id \in Ids : Recorded(id) => hist[id].delivered
        /\ \A i, j \in Ids :
            (i < j /\ hist[i].delivered /\ hist[j].delivered) => hist[i].seq < hist[j].seq

\* C3: in non-draft mode an invocation whose handler returns nothing leaves
\* the state unchanged (nothing is reduced for it) and its action is still
\* delivered to every epic subscribed at the time of the publication.
C3_EffectOnly ==
    \A id \in Ids :
        (~memo.immer /\ hist[id].type = "incrementAsync" /\ Recorded(id)) =>
            /\ ~hist[id].reduced
            /\ \A k \in DOMAIN reducerQ : reducerQ[k].id # id
            /\ Quiescent => hist[id].delivered

\* the part of C3 that the code keeps: no reduction for an effect-only action
C3_StateUntouched ==
    \A id \in Ids :
        (~memo.immer /\ hist[id].type = "incrementAsync" /\ Recorded(id)) =>
            /\ ~hist[id].reduced
            /\ \A k \in DOMAIN reducerQ : reducerQ[k].id # id

ScenarioSettled ==
    /\ Quiescent
    /\ \A i \in DOMAIN inst : inst[i].timers = 0

AsyncCalls == {id \in Ids : hist[id].type = "incrementAsync"}

\* C4: in the example scenario every incrementAsync() leaves the state as it
\* was, and once the delays have elapsed and the updates settled the state is
\* the initial state plus one per incrementAsync invocation.
C4_ScenarioIncrements ==
    /\ \A id \in AsyncCalls : hist[id].reduced => hist[id].post = hist[id].pre
    /\ ScenarioSettled => state = memo.state + Cardinality(AsyncCalls)

C5_AllCancelled ==
    /\ phase = "disposed" => \A i \in DOMAIN inst : inst[i].closed
    /\ \A i \in DOMAIN inst : inst[i].act < refs => inst[i].closed

\* C5: once the container is unmounted or the epic list changed, every
\* subscription of the previous activation is cancelled, and a cancelled epic
\* instance receives no further action or state notification.
C5_DisposalCancels ==
    [][/\ C5_AllCancelled'
       /\ \A i \in DOMAIN inst :
            inst[i].closed =>
                /\ inst'[i] = inst[i]
                /\ \A id \in DOMAIN hist' :
                    i \in hist'[id].receivers => (id \in Ids /\ i \in hist[id].receivers)
      ]_vars

C5_Witness ==
    \E i \in DOMAIN inst, id \in Ids :
        /\ inst[i].closed
        /\ hist[id].delivered
        /\ \E j \in hist[id].receivers : inst[j].act > inst[i].act

\* C6: an observer that subscribes to the StateObservable receives its
\* current value as first notification, during subscribe, whenever it
\* subscribes.
C6_ReplayOnSubscribe ==
    [][\A i \in DOMAIN inst :
        (~inst[i].stateSub /\ inst'[i].stateSub) =>
            /\ inst'[i].stateLog = <<bus.value>>
            /\ bus' = bus
      ]_vars

C6_Witness ==
    \E i \in DOMAIN inst :
        /\ inst[i].stateSub
        /\ inst[i].stateLog[1] # memo.state
        /\ inst[i].stateLog[1] = bus.value

StatePushed ==
    /\ pending # <<>> /\ Head(pending) = "publish"
    /\ pending' = Tail(pending)
    /\ lastAction # Null
    /\ refs # NoEpoch

Subscribed(i) == Live(World, i) /\ inst[i].stateSub

NoRepeat(log) == \A k \in 1 .. Len(log) - 1 : log[k] # log[k + 1]

\* C7: a value pushed to the state bus that equals StateObservable.value
\* changes nothing and notifies nobody; a different one becomes value and
\* reaches each live subscriber exactly once; no subscriber ever receives the
\* same value twice in a row.
\* this step is the publication effect pushing `state` into the state bus
C7_Dedup ==
    [][/\ \A i \in DOMAIN inst' : NoRepeat(inst'[i].stateLog)
       /\ StatePushed =>
            IF state = bus.value
            THEN /\ bus'.value = bus.value
                 /\ \A i \in DOMAIN inst : inst'[i].stateLog = inst[i].stateLog
            ELSE /\ bus'.value = state
                 /\ \A i \in DOMAIN inst :
                        inst'[i].stateLog = IF Subscribed(i)
                                            THEN Append(inst[i].stateLog, state)
                                            ELSE inst[i].stateLog
      ]_vars

C7_Witness ==
    \E i \in DOMAIN inst, a, b \in Ids :
        /\ a < b
        /\ hist[a].delivered /\ hist[b].delivered
        /\ i \in hist[a].receivers /\ i \in hist[b].receivers
        /\ hist[a].reduced /\ hist[a].post # hist[a].pre
        /\ hist[b].valueAt = hist[a].valueAt
        /\ inst[i].stateLog = <<hist[a].pre, hist[a].post>>

Wanted(item) == item # Null /\ \E k \in DOMAIN ofKeys : item.type = ofKeys[k]

\* C8: ofType(...keys) emits exactly the source items that are defined and
\* whose type is one of the keys, in source order and unaltered.
C8_OfTypeFilters == ofOut = SelectSeq(SubSeq(ofSrc, 1, ofPos - 1), Wanted)

C8_Witness ==
    /\ ofPos > Len(ofSrc)
    /\ Len(ofKeys) = 2 /\ ofKeys[1] # ofKeys[2]
    /\ \E p, q, r \in DOMAIN ofSrc :
        /\ ofSrc[p] = Null
        /\ ofSrc[q] # Null /\ ofSrc[q].type = ofKeys[1]
        /\ ofSrc[r] # Null /\ ~Wanted(ofSrc[r])
    /\ Len(ofOut) = 1

\* C9: the action built by name(a1, ..., an) carries the whole argument
\* sequence, and the handler is invoked with that sequence.
C9_PayloadFidelity ==
    \A id \in Ids :
        /\ hist[id].payload = hist[id].args
        /\ hist[id].handlerArgs = hist[id].args

Threw(h, id) == h[id].outcome = "threw"

\* C10: a handler that throws in the reduction made by a callback invocation
\* fails that call only: the state is unchanged, no action is recorded or
\* delivered, and the container stays as it was.
C10_HandlerFailure ==
    [][/\ \A id \in DOMAIN hist' :
            Threw(hist', id) =>
                /\ ~hist'[id].delivered
                /\ ~hist'[id].reduced
                /\ \A k \in DOMAIN reducerQ' : reducerQ'[k].id # id
                /\ \A k \in DOMAIN lastActionQ' : lastActionQ'[k].id # id
                /\ lastAction'.id # id
       /\ (Len(hist') = Len(hist) + 1 /\ Threw(hist', Len(hist')) /\ hist'[Len(hist')].by = "caller") =>
            /\ UNCHANGED <<state, phase, lastAction, reducerQ, lastActionQ, bus, inst, pending>>
      ]_vars

C10_Witness ==
    \E a, b \in Ids :
        /\ a < b
        /\ Threw(hist, a)
        /\ phase = "active"
        /\ hist[b].delivered
        /\ hist[b].reduced /\ hist[b].post = hist[b].pre + 1

\* this step is a disposal: the cleanup of the activation effect runs because
\* the epic list changed, or the host unmounts the component
Disposing ==
    \/ pending # <<>> /\ Head(pending) = "cleanup" /\ pending' = Tail(pending)
    \/ phase = "active" /\ phase' = "disposed"

\* the action delivered by this step, if any
DeliveredNow(id) == hist'[id].delivered /\ ~(id \in Ids /\ hist[id].delivered)

\* C11: when the output stream of one epic errors or completes, only that
\* epic's subscription closes: a subscription is closed by its own stream
\* ending or by a disposal, never by a sibling's end; every action published
\* afterwards reaches all the subscriptions still open (a delay epic starts
\* its timer for it), and the step leaves the container mounted with its
\* state as it was.
C11_FailureIsolated ==
    [][/\ \A i \in DOMAIN inst :
            (~inst[i].closed /\ inst'[i].closed) => (inst'[i].ended \/ Disposing)
       /\ \A id \in DOMAIN hist' :
            DeliveredNow(id) =>
                /\ hist'[id].receivers = {i \in DOMAIN inst : ~inst[i].closed /\ inst[i].act = refs}
                /\ \A i \in hist'[id].receivers :
                        (inst[i].kind = "delay" /\ hist'[id].type = "incrementAsync") =>
                            inst'[i].timers = inst[i].timers + 1
       /\ (\E i \in DOMAIN inst : ~inst[i].ended /\ inst'[i].ended) =>
            (phase' = phase /\ state' = state)
      ]_vars

C11_Witness ==
    \E i, j \in DOMAIN inst, a, b \in Ids :
        /\ inst[i].ended /\ inst[i].kind = "faulty"
        /\ inst[j].act = inst[i].act /\ inst[j].kind = "delay" /\ ~inst[j].closed
        /\ hist[a].delivered /\ i \in hist[a].receivers /\ hist[a].reduced
        /\ hist[b].delivered /\ hist[b].seq > hist[a].seq
        /\ hist[b].type = "incrementAsync"
        /\ i \notin hist[b].receivers /\ j \in hist[b].receivers
        /\ inst[j].timers = 1
        /\ phase = "active" /\ state = hist[a].post

\* the container is Active and no effect of the activation is left to run
ActiveNow == phase = "active" /\ \A k \in DOMAIN pending : pending[k] = "publish"

\* the subscriptions made by the current activation, in the order made
Current == SelectSeq([i \in DOMAIN inst |-> i], LAMBDA i : inst[i].act = refs)

C12_DefaultsPerCall ==
    phase # "init" =>
        /\ ~options.hasImmer => memo.immer
        /\ ~options.hasInit => memo.state = Seed

\* C13: when options.init is supplied it has been called exactly once from
\* the first activation on, whatever re-renders and re-activations followed,
\* and the value the state bus starts with is the container's initial state.
C13_SingleInit ==
    (options.hasInit /\ refs # NoEpoch) =>
        /\ initCalls = 1
        /\ (refs = 1 /\ hist = <<>>) => (bus.value = state /\ state = initFn(Seed))

\* every action recorded so far has been published
AllPublished == \A id \in Ids : Recorded(id) => hist[id].delivered

\* C14: an activation (the first, and each one after an epic-list change)
\* leaves the container state as it is, and whenever the container is Active
\* with nothing left to publish, the value of the state observable of the
\* current activation is the container's current state.
C14_ReactivationInSync ==
    [][/\ refs' # refs => state' = state
       /\ (Quiescent' /\ AllPublished') => bus'.value = state'
      ]_vars

\* the callback invocations made in this step
NewIds == {id \in DOMAIN hist' : id \notin Ids}

\* C15: a callback invoked while no reduction is queued takes the
\* state-changing branch exactly when its handler, applied to the container's
\* current state, returns a state, and the effect-only branch exactly when it
\* returns nothing.
C15_CurrentStateReduction ==
    [][\A id \in NewIds :
        (reducerQ = <<>> /\ hist'[id].outcome \in {"dispatched", "effectOnly"}) =>
            LET action == [id |-> id, type |-> hist'[id].type, payload |-> hist'[id].payload]
                nextState == reducer(memo.immer, state, action)
            IN  (nextState.tag = "ret") <=> (hist'[id].outcome = "dispatched")
      ]_vars

\* C20: in non-draft mode the container state is always a defined value: the
\* initial state or a value a handler returned.
C20_StateDefined == ~memo.immer => state \notin {Undefined, NaN}

RECURSIVE FoldHandlers(_, _)
\* the handlers of the invocations id, id + 1, ... applied in invocation
\* order from s; an invocation whose handler returns nothing, or that was
\* made after the unmount, leaves the state as it is
FoldHandlers(s, id) ==
    IF id > Len(hist) THEN s
    ELSE LET r == Handler(s, hist[id].type, hist[id].payload)
         IN  FoldHandlers(IF Recorded(id) /\ r.tag = "ret" THEN r.val ELSE s, id + 1)

\* C16: with handlers that return a state whatever the state is, whenever no
\* reduction is queued the container state is the left fold of the handlers
\* over all invocations so far, the caller's and the epics', in invocation
\* order from the initial state.
C16_SerializedReduction == reducerQ = <<>> => state = FoldHandlers(memo.state, 1)

C16_Witness ==
    \E a, b \in Ids :
        /\ a < b
        /\ hist[a].by = "epic" /\ hist[a].type = "increment"
        /\ hist[b].by = "caller" /\ hist[b].type = "double"
        /\ hist[a].reduced /\ hist[b].reduced
        /\ hist[a].pre = memo.state /\ hist[b].pre = hist[a].post
        /\ ~(\E k \in Ids : hist[k].delivered /\ hist[k].seq > 1)
        /\ reducerQ = <<>>
        /\ state = (memo.state + 1) * 2
        /\ state # (memo.state * 2) + 1

\* C17: an action built by a callback that an epic invokes while the
\* publication pass is delivering to it is still the recorded pending action
\* when the pass has finished.
C17_ReentrantKept ==
    [][StatePushed =>
        \A id \in NewIds :
            hist'[id].outcome \in {"dispatched", "effectOnly"} =>
                /\ lastActionQ' # <<>>
                /\ lastActionQ'[Len(lastActionQ')].id = id
      ]_vars

\* every state change made so far has had its publication pass
ChangesPublished == \A id \in Ids : hist[id].outcome = "dispatched" => hist[id].delivered

\* C19: the publication pass of an effect-only invocation, made when every
\* earlier state change has been published, delivers the action and leaves
\* the value of the state observable and every subscriber's log as they
\* were, in the first activation and after a re-activation.
C19_NoStateNotification ==
    [][(StatePushed /\ ChangesPublished /\ hist[lastAction.id].outcome = "effectOnly") =>
            /\ hist'[lastAction.id].delivered
            /\ bus'.value = bus.value
            /\ \A i \in DOMAIN inst : inst'[i].stateLog = inst[i].stateLog
      ]_vars

====
